---- MODULE Spec2Model ----
(***************************************************************************)
(* ScrapeRunner (frontend/src/components/product-details-dialog.tsx,       *)
(* lines 292-583): the client reconciler of the job progress protocol.     *)
(*                                                                         *)
(* The component keeps a Client Job View (job), a running flag, and a ref  *)
(* to the EventSource it opened last.  start() POSTs the job, awaits the   *)
(* job id, opens an EventSource on /jobs/stream/<job_id> and registers     *)
(* four listeners (started, progress, done, error).  The unmount cleanup   *)
(* closes the EventSource the ref points to.                               *)
(*                                                                         *)
(* The server (Job Launcher, Job Registry, Event Stream Publisher) is not  *)
(* part of the sources; it is modelled from the specification, sections    *)
(* 4.2-4.4, and the network may in addition deliver any event.             *)
(***************************************************************************)
EXTENDS Integers, Sequences, FiniteSets, TLC

\* Bounds of the model.
MaxStarts == 2
MaxTotal == 1
MaxNum == 1
MaxDefs == 2
MaxPctTotal == 8

\* ------------------------------------------------------------------------
\* Data
\* ------------------------------------------------------------------------

\* JobState.status
Statuses == {"queued", "running", "done", "error", "cancelled"}

\* terminal statuses of a job
Terminal == {"done", "error", "cancelled"}

\* the names of the events the component listens to
EventNames == {"started", "progress", "done", "error"}

\* keys of the open mapping JobState.meta
MetaKeys == {"last_url"}

JobIds == 1 .. MaxStarts

\* useState<JobState | null>(null): the null view
NullJob == [id |-> 0]

\* JobState; kind, ok, err and note are carried like meta: the listeners
\* never read them
JobState ==
  [id : JobIds, status : Statuses, total : 0 .. MaxTotal,
   done : 0 .. MaxTotal, meta : SUBSET MetaKeys]

\* the snapshots of job j whose status is st
SnapshotsOf(j, st) ==
  [id : {j}, status : {st}, total : 0 .. MaxTotal,
   done : 0 .. MaxTotal, meta : SUBSET MetaKeys]

\* ev.data of an Event that is not a MessageEvent (the EventSource's own
\* error notification)
Undefined == [t |-> "undefined"]

\* ev.data that is not JSON text
Garbage == [t |-> "garbage"]

\* ev.data that is the JSON text of a job snapshot
Json(s) == [t |-> "json", v |-> s]

\* what a MessageEvent of the stream of job j can carry
MessageData(j) ==
  {Garbage} \cup {Json(s) : s \in UNION {SnapshotsOf(j, st) : st \in Statuses}}

\* JSON.parse: the value of JSON text, a SyntaxError for anything else
\* (JSON.parse(undefined) parses the text "undefined", which is not JSON)
JSONparse(d) ==
  IF d.t = "json" THEN [ok |-> TRUE, val |-> d.v]
  ELSE [ok |-> FALSE, val |-> NullJob]

\* ------------------------------------------------------------------------
\* State
\* ------------------------------------------------------------------------
VARIABLES
  job,       \* the Client Job View: NullJob or a JobState
  running,   \* the running flag
  esRef,     \* esRef.current: 0 (null) or an index of sources
  sources,   \* the EventSource objects created so far: [url, readyState]
  calls,     \* the invocations of start(): [st, job_id]
  mounted,   \* the component is mounted
  jobs,      \* server: the status of each job of the registry, by job id
  last,      \* history: the event dispatched last
  kind,      \* props.kind
  paramDefs, \* props.paramDefs
  params,    \* props.params, the seed
  form,      \* the parameter values of the form
  store,     \* localStorage: the text of the slot of each kind
  storage,   \* localStorage works, is full (writes throw) or is denied
  origin,    \* history: the kind whose slot the form state was loaded from
  op         \* history: the operation on the form that was done last

formVars == <<kind, paramDefs, params, form, store, storage, origin, op>>

vars ==
  <<job, running, esRef, sources, calls, mounted, jobs, last,
    kind, paramDefs, params, form, store, storage, origin, op>>

NoEvent == [src |-> 0, name |-> "none", data |-> Undefined]

\* ------------------------------------------------------------------------
\* Parameters: definitions, values, storage text
\* ------------------------------------------------------------------------

\* parameter values: booleans, numbers, strings (Undefined is the value of
\* a missing default and of a key whose value is undefined)
Bool(b) == [bool |-> b]

Num(n) == [num |-> n]

Str(x) == [str |-> x]

\* the job kinds of the page
Kinds == {"details", "urls"}

\* ParamDef.type
ParamTypes == {"number", "boolean", "text", "select"}

\* a mapping without keys
EmptyMap == [k \in {} |-> Undefined]

\* { ...a, ...b }
Spread(a, b) ==
  [k \in DOMAIN a \cup DOMAIN b |-> IF k \in DOMAIN b THEN b[k] ELSE a[k]]

\* a ?? b
Nullish(a, b) == IF a = Undefined THEN b ELSE a

\* a default resolver that ignores the default of a boolean
DefaultOfNoBool(d) ==
  IF d.type = "boolean" THEN Bool(FALSE)
  ELSE IF d.type = "number" THEN Nullish(d.default, Num(0))
  ELSE IF d.type = "select"
    THEN Nullish(d.default, IF Len(d.options) > 0 THEN Str(d.options[1]) ELSE Str(""))
  ELSE Nullish(d.default, Str(""))

\* the value the reducer stores for one definition
DefaultOf(d) ==
  IF d.type = "boolean" THEN Nullish(d.default, Bool(FALSE))
  ELSE IF d.type = "number" THEN Nullish(d.default, Num(0))
  ELSE IF d.type = "select"
    THEN Nullish(d.default, IF Len(d.options) > 0 THEN Str(d.options[1]) ELSE Str(""))
  ELSE Nullish(d.default, Str(""))

\* paramDefs.reduce(...): acc[d.name] = default of d, in order
RECURSIVE FromDefs(_)
FromDefs(defs) ==
  IF defs = <<>> THEN EmptyMap
  ELSE LET d == defs[Len(defs)]
           acc == FromDefs(SubSeq(defs, 1, Len(defs) - 1))
       IN Spread(acc, [k \in {d.name} |-> DefaultOf(d)])

\* the defaults memo: the defaults of the definitions, then the seed
DefaultsOf(defs, seed) == Spread(FromDefs(defs), seed)

Defaults == DefaultsOf(paramDefs, params)

\* localStorage.getItem of a key that is not there
NoItem == [item |-> "null"]

\* texts a slot can hold: the empty text, text that is not JSON, and the
\* JSON text of an object, a string (its characters), a number, a list, null
EmptyText == [text |-> "empty"]

GarbageText == [text |-> "garbage"]

ObjText(m) == [obj |-> m]

StrText(cs) == [chars |-> cs]

NumText(n) == [number |-> n]

ListText(l) == [list |-> l]

NullText == [literal |-> "null"]

\* JSON.stringify of a mapping: a key whose value is undefined is left out
JSONstringify(m) ==
  ObjText([k \in {x \in DOMAIN m : m[x] # Undefined} |-> m[k]])

\* the property name of index i (from 1) of a string or a list
IndexKey(i) == IF i = 1 THEN "0" ELSE IF i = 2 THEN "1" ELSE "2"

\* { ...JSON.parse(text) }: the own enumerable properties of the value
\* of the text: the keys of an object, the indices of a string or a list,
\* none of a number or of null
SpreadOfText(t) ==
  IF "obj" \in DOMAIN t THEN t.obj
  ELSE IF "chars" \in DOMAIN t
    THEN [k \in {IndexKey(i) : i \in DOMAIN t.chars} |->
            Str(t.chars[CHOOSE i \in DOMAIN t.chars : IndexKey(i) = k])]
  ELSE IF "list" \in DOMAIN t
    THEN [k \in {IndexKey(i) : i \in DOMAIN t.list} |->
            t.list[CHOOSE i \in DOMAIN t.list : IndexKey(i) = k]]
  ELSE EmptyMap

\* an initialiser that reads no slot
InitialFormNoSlot(k) == Defaults

\* the initialiser of the form state: the slot of the kind over the
\* defaults; the defaults when getItem throws, when there is no text or
\* when JSON.parse throws
InitialForm(k) ==
  IF storage = "denied" THEN Defaults
  ELSE IF store[k] \in {NoItem, EmptyText} THEN Defaults
  ELSE IF store[k] = GarbageText THEN Defaults
  ELSE Spread(Defaults, SpreadOfText(store[k]))

\* a persist effect that writes only a slot that has no item
PersistIfAbsent(k, f) ==
  IF storage = "ok" /\ store[k] = NoItem
    THEN [store EXCEPT ![k] = JSONstringify(f)]
  ELSE store

\* a persist effect whose failed write removes the item
PersistClears(k, f) ==
  IF storage = "ok" THEN [store EXCEPT ![k] = JSONstringify(f)]
  ELSE [store EXCEPT ![k] = NoItem]

\* the persist effect: setItem of the slot of the kind; a throw is ignored
Persist(k, f) ==
  IF storage = "ok" THEN [store EXCEPT ![k] = JSONstringify(f)] ELSE store

\* the values an input of a definition can hand to update
InputValues(d) ==
  IF d.type = "boolean" THEN {Bool(TRUE), Bool(FALSE)}
  ELSE IF d.type = "number" THEN {Str("")} \cup {Num(n) : n \in 0 .. MaxNum}
  ELSE IF d.type = "select" THEN {Str(d.options[i]) : i \in DOMAIN d.options}
  ELSE {Str(""), Str("t")}

\* the component before it is mounted
InitRunner ==
  /\ job = NullJob
  /\ running = FALSE
  /\ esRef = 0
  /\ sources = <<>>
  /\ calls = <<>>
  /\ jobs = <<>>
  /\ last = NoEvent

\* the definition of the number field of the mounted component
LimitDef ==
  [name |-> "limit", type |-> "number", default |-> Num(1), options |-> <<>>]

\* a mounted component with one number field, no seed and working storage
Init ==
  /\ InitRunner
  /\ mounted = TRUE
  /\ kind = "details"
  /\ paramDefs = <<LimitDef>>
  /\ params = EmptyMap
  /\ storage = "ok"
  /\ form = DefaultsOf(<<LimitDef>>, EmptyMap)
  /\ store = [k \in Kinds |->
               IF k = "details" THEN JSONstringify(DefaultsOf(<<LimitDef>>, EmptyMap))
               ELSE NoItem]
  /\ origin = "details"
  /\ op = "mount"

\* setJob that merges the snapshot into the view it has
setJobMerge(v) ==
  IF ~mounted THEN job
  ELSE IF job = NullJob THEN v
  ELSE [v EXCEPT !.meta = job.meta \cup v.meta]

\* a state update of a component that is no longer mounted is dropped
setJob(v) == IF mounted THEN v ELSE job

setRunning(b) == IF mounted THEN b ELSE running

\* es.close()
Close(i) == [sources EXCEPT ![i].readyState = "closed"]

Open(i) == i \in DOMAIN sources /\ sources[i].readyState = "open"

\* ------------------------------------------------------------------------
\* start()
\* ------------------------------------------------------------------------

\* start that can be invoked while running
StartWhileRunning ==
  /\ mounted
  /\ Len(calls) < MaxStarts
  /\ running' = TRUE
  /\ calls' = Append(calls, [st |-> "request", job_id |-> 0,
                             kind |-> kind, params |-> form])
  /\ UNCHANGED <<job, esRef, sources, mounted, jobs, last>>
  /\ UNCHANGED formVars

\* a start that sends only the keys that have a definition
StartValidated ==
  /\ mounted
  /\ ~running
  /\ Len(calls) < MaxStarts
  /\ running' = TRUE
  /\ calls' = Append(calls,
       [st |-> "request", job_id |-> 0, kind |-> kind,
        params |-> [k \in {x \in DOMAIN form :
                             \E i \in DOMAIN paramDefs : paramDefs[i].name = x}
                    |-> form[k]]])
  /\ UNCHANGED <<job, esRef, sources, mounted, jobs, last>>
  /\ UNCHANGED formVars

\* the Run button is disabled while running; start sets running and sends
\* the POST with { kind, params: form }
Start ==
  /\ mounted
  /\ ~running
  /\ Len(calls) < MaxStarts
  /\ running' = TRUE
  /\ calls' = Append(calls, [st |-> "request", job_id |-> 0,
                             kind |-> kind, params |-> form])
  /\ UNCHANGED <<job, esRef, sources, mounted, jobs, last>>
  /\ UNCHANGED formVars

\* Job Launcher: the request is accepted, a job is created in queued and
\* its id is returned
ServerAccept(c) ==
  /\ c \in DOMAIN calls
  /\ calls[c].st = "request"
  /\ jobs' = Append(jobs, "queued")
  /\ calls' = [calls EXCEPT ![c].st = "resolved", ![c].job_id = Len(jobs) + 1]
  /\ UNCHANGED <<job, running, esRef, sources, mounted, last>>
  /\ UNCHANGED formVars

\* Job Launcher: InvalidParameters, EngineUnavailable, UnknownKind or a
\* network failure; no job is created
ServerReject(c) ==
  /\ c \in DOMAIN calls
  /\ calls[c].st = "request"
  /\ calls' = [calls EXCEPT ![c].st = "rejected"]
  /\ UNCHANGED <<job, running, esRef, sources, mounted, jobs, last>>
  /\ UNCHANGED formVars

\* the await returns: the EventSource is created on the job's stream and
\* stored in the ref, the listeners are registered
PostResolved(c) ==
  /\ c \in DOMAIN calls
  /\ calls[c].st = "resolved"
  /\ sources' = Append(sources, [url |-> calls[c].job_id, readyState |-> "open"])
  /\ esRef' = Len(sources) + 1
  /\ calls' = [calls EXCEPT ![c].st = "opened"]
  /\ UNCHANGED <<job, running, mounted, jobs, last>>
  /\ UNCHANGED formVars

\* a start that goes on after the failure, with no job id
PostRejectedOpens(c) ==
  /\ c \in DOMAIN calls
  /\ calls[c].st = "rejected"
  /\ sources' = Append(sources, [url |-> 0, readyState |-> "open"])
  /\ esRef' = Len(sources) + 1
  /\ calls' = [calls EXCEPT ![c].st = "thrown"]
  /\ UNCHANGED <<job, running, mounted, jobs, last>>
  /\ UNCHANGED formVars

\* the await throws: start() ends there
PostRejected(c) ==
  /\ c \in DOMAIN calls
  /\ calls[c].st = "rejected"
  /\ calls' = [calls EXCEPT ![c].st = "thrown"]
  /\ UNCHANGED <<job, running, esRef, sources, mounted, jobs, last>>
  /\ UNCHANGED formVars

\* ------------------------------------------------------------------------
\* The listeners
\* ------------------------------------------------------------------------

\* a started listener that clears the view on a payload it cannot parse
OnStartedClears(i, data) ==
  LET p == JSONparse(data) IN
  /\ job' = IF p.ok THEN setJob(p.val) ELSE setJob(NullJob)
  /\ UNCHANGED <<running, sources>>

OnStarted(i, data) ==
  LET p == JSONparse(data) IN
  /\ job' = IF p.ok THEN setJob(p.val) ELSE job
  /\ UNCHANGED <<running, sources>>

\* a progress listener that keeps the ok counter of the view it has
OnProgressKeepsOk(i, data) ==
  LET p == JSONparse(data) IN
  /\ job' = IF ~p.ok THEN job
            ELSE IF job = NullJob \/ "ok" \notin DOMAIN job THEN setJob(p.val)
            ELSE setJob([p.val EXCEPT !.ok = job.ok])
  /\ UNCHANGED <<running, sources>>

\* a progress listener that gives up on a payload it cannot parse
OnProgressStrict(i, data) ==
  LET p == JSONparse(data) IN
  /\ job' = IF p.ok THEN setJob(p.val) ELSE job
  /\ sources' = IF p.ok THEN sources ELSE Close(i)
  /\ running' = IF p.ok THEN running ELSE setRunning(FALSE)

OnProgress(i, data) ==
  LET p == JSONparse(data) IN
  /\ job' = IF p.ok THEN setJob(p.val) ELSE job
  /\ UNCHANGED <<running, sources>>

\* a done listener that forgets to close
OnDoneNoClose(i, data) ==
  LET p == JSONparse(data) IN
  /\ job' = IF p.ok THEN setJob(p.val) ELSE job
  /\ sources' = sources
  /\ running' = setRunning(FALSE)

OnDone(i, data) ==
  LET p == JSONparse(data) IN
  /\ job' = IF p.ok THEN setJob(p.val) ELSE job
  /\ sources' = Close(i)
  /\ running' = setRunning(FALSE)

\* an error listener that marks the view it has as failed when the event
\* has no payload it can parse
OnErrorMarksFailed(i, data) ==
  LET p == JSONparse(data) IN
  /\ job' = IF p.ok THEN setJob(p.val)
            ELSE IF job = NullJob THEN job
            ELSE setJob([job EXCEPT !.status = "error"])
  /\ sources' = Close(i)
  /\ running' = setRunning(FALSE)

\* an error listener that marks the view as failed
OnErrorFlagged(i, data) ==
  LET p == JSONparse(data) IN
  /\ job' = IF p.ok THEN setJob([p.val EXCEPT !.status = "error"]) ELSE job
  /\ sources' = Close(i)
  /\ running' = setRunning(FALSE)

\* an error listener that closes inside the try block
OnErrorParsedOnly(i, data) ==
  LET p == JSONparse(data) IN
  /\ job' = IF p.ok THEN setJob(p.val) ELSE job
  /\ sources' = IF p.ok THEN Close(i) ELSE sources
  /\ running' = IF p.ok THEN setRunning(FALSE) ELSE running

OnError(i, data) ==
  LET p == JSONparse(data) IN
  /\ job' = IF p.ok THEN setJob(p.val) ELSE job
  /\ sources' = Close(i)
  /\ running' = setRunning(FALSE)

\* the browser dispatches an event at an EventSource that is not closed
Dispatch(i, name, data) ==
  /\ Open(i)
  /\ CASE name = "started" -> OnStarted(i, data)
       [] name = "progress" -> OnProgress(i, data)
       [] name = "done" -> OnDone(i, data)
       [] name = "error" -> OnError(i, data)
  /\ last' = [src |-> i, name |-> name, data |-> data]
  /\ UNCHANGED <<esRef, calls, mounted, jobs>>
  /\ UNCHANGED formVars

\* any named event with any payload arrives on a stream
Receive(i, name) ==
  /\ Open(i)
  /\ \E data \in MessageData(sources[i].url) : Dispatch(i, name, data)

\* the connection fails: the EventSource fires its own error event, which
\* carries no data
TransportError(i) == Dispatch(i, "error", Undefined)

\* ------------------------------------------------------------------------
\* Unmount
\* ------------------------------------------------------------------------

\* a cleanup that leaves the EventSource alone
UnmountNoClose ==
  /\ mounted
  /\ mounted' = FALSE
  /\ UNCHANGED <<job, running, esRef, sources, calls, jobs, last>>
  /\ UNCHANGED formVars

\* the cleanup of the mount effect: esRef.current?.close()
Unmount ==
  /\ mounted
  /\ mounted' = FALSE
  /\ sources' = IF esRef # 0 THEN Close(esRef) ELSE sources
  /\ UNCHANGED <<job, running, esRef, calls, jobs, last>>
  /\ UNCHANGED formVars

\* ------------------------------------------------------------------------
\* The progress bar
\* ------------------------------------------------------------------------

\* the value shown while running without a total
Placeholder == 5

\* Math.round of the non-negative quotient num / den: floor(num / den + 0.5)
MathRound(num, den) == (2 * num + den) \div (2 * den)

MathMin(a, b) == IF a < b THEN a ELSE b

\* pct without the clamp
pctNoClamp(j, r) ==
  IF j # NullJob /\ j.total > 0 THEN MathRound(j.done * 100, j.total)
  ELSE IF r THEN Placeholder ELSE 0

\* pct: the value of the progress bar for view j and running flag r
pct(j, r) ==
  IF j # NullJob /\ j.total > 0
    THEN MathMin(100, MathRound(j.done * 100, j.total))
  ELSE IF r THEN Placeholder ELSE 0

\* the counters of the snapshots of the progress bar's specification: all
\* small ones, done above total included, and those of the scenario
Counts ==
  ((0 .. MaxPctTotal) \X (0 .. MaxPctTotal + 1)) \cup {<<100, 10>>, <<100, 100>>}

\* a started or progress event of a running job, or the final event, with
\* counters c
ReceiveCounts(i, name, c) ==
  /\ Open(i)
  /\ Dispatch(i, name,
       Json([id |-> sources[i].url,
             status |-> IF name \in {"done", "error"} THEN name ELSE "running",
             total |-> c[1], done |-> c[2], meta |-> {}]))

\* ------------------------------------------------------------------------
\* The form
\* ------------------------------------------------------------------------

\* a mount whose persist effect waits for a change of the form
MountNoPersist ==
  /\ ~mounted
  /\ mounted' = TRUE
  /\ job' = NullJob
  /\ running' = FALSE
  /\ esRef' = 0
  /\ form' = InitialForm(kind)
  /\ origin' = kind
  /\ op' = IF op = "none" THEN "mount" ELSE "remount"
  /\ UNCHANGED <<sources, calls, jobs, last, kind, paramDefs, params, storage,
                 store>>

\* a new instance is rendered: the form is initialised and the persist
\* effect runs
Mount ==
  /\ ~mounted
  /\ mounted' = TRUE
  /\ job' = NullJob
  /\ running' = FALSE
  /\ esRef' = 0
  /\ form' = InitialForm(kind)
  /\ store' = Persist(kind, form')
  /\ origin' = kind
  /\ op' = IF op = "none" THEN "mount" ELSE "remount"
  /\ UNCHANGED <<sources, calls, jobs, last, kind, paramDefs, params, storage>>

\* update that replaces the form by the one key
UpdateOnly(name, value) ==
  /\ mounted
  /\ \E i \in DOMAIN paramDefs :
       paramDefs[i].name = name /\ value \in InputValues(paramDefs[i])
  /\ form' = [k \in {name} |-> value]
  /\ store' = Persist(kind, form')
  /\ op' = "update"
  /\ UNCHANGED <<job, running, esRef, sources, calls, mounted, jobs, last>>
  /\ UNCHANGED <<kind, paramDefs, params, storage, origin>>

\* update(name, value) from the input of a definition, then the persist
\* effect
Update(name, value) ==
  /\ mounted
  /\ \E i \in DOMAIN paramDefs :
       paramDefs[i].name = name /\ value \in InputValues(paramDefs[i])
  /\ form' = Spread(form, [k \in {name} |-> value])
  /\ store' = Persist(kind, form')
  /\ op' = "update"
  /\ UNCHANGED <<job, running, esRef, sources, calls, mounted, jobs, last>>
  /\ UNCHANGED <<kind, paramDefs, params, storage, origin>>

\* a reset that keeps the keys the defaults do not have
ResetKeeps ==
  /\ mounted
  /\ ~running
  /\ Len(paramDefs) > 0
  /\ form' = Spread(form, Defaults)
  /\ store' = Persist(kind, form')
  /\ op' = "reset"
  /\ UNCHANGED <<job, running, esRef, sources, calls, mounted, jobs, last>>
  /\ UNCHANGED <<kind, paramDefs, params, storage, origin>>

\* the Reset button (shown when there are definitions, disabled while
\* running): setForm(defaults), then the persist effect
Reset ==
  /\ mounted
  /\ ~running
  /\ Len(paramDefs) > 0
  /\ form' = Defaults
  /\ store' = Persist(kind, form')
  /\ op' = "reset"
  /\ UNCHANGED <<job, running, esRef, sources, calls, mounted, jobs, last>>
  /\ UNCHANGED <<kind, paramDefs, params, storage, origin>>

\* the parent renders the component with another kind: the form state is
\* kept and the persist effect runs for the new kind
KindChange(k) ==
  /\ mounted
  /\ k # kind
  /\ kind' = k
  /\ store' = Persist(k, form)
  /\ op' = "kind"
  /\ UNCHANGED <<job, running, esRef, sources, calls, mounted, jobs, last>>
  /\ UNCHANGED <<paramDefs, params, form, storage, origin>>

\* ------------------------------------------------------------------------
\* Server: registry and publisher
\* ------------------------------------------------------------------------

\* queued -> running -> {done, error, cancelled}, queued -> cancelled
Transition(s, t) ==
  \/ s = "queued" /\ t \in {"running", "cancelled"}
  \/ s = "running" /\ t \in Terminal

ServerStep(j, t) ==
  /\ j \in DOMAIN jobs
  /\ Transition(jobs[j], t)
  /\ jobs' = [jobs EXCEPT ![j] = t]
  /\ UNCHANGED <<job, running, esRef, sources, calls, mounted, last>>
  /\ UNCHANGED formVars

\* the name under which a snapshot of a given status is published
NameOf(status) ==
  CASE status = "running" -> {"started", "progress"}
    [] status = "done" -> {"done"}
    [] status = "cancelled" -> {"done"}
    [] status = "error" -> {"error"}
    [] OTHER -> {}

\* the publisher sends the current snapshot of the job of a stream, under
\* the name of its status
Publish(i) ==
  /\ Open(i)
  /\ \E s \in SnapshotsOf(sources[i].url, jobs[sources[i].url]) :
       \E name \in NameOf(s.status) : Dispatch(i, name, Json(s))

\* ------------------------------------------------------------------------
\* Specifications
\* ------------------------------------------------------------------------

\* the component and the launcher
Client ==
  \/ Start
  \/ \E c \in 1 .. MaxStarts : ServerAccept(c)
  \/ \E c \in 1 .. MaxStarts : ServerReject(c)
  \/ \E c \in 1 .. MaxStarts : PostResolved(c)
  \/ \E c \in 1 .. MaxStarts : PostRejected(c)
  \/ \E i \in 1 .. MaxStarts : TransportError(i)
  \/ Unmount

\* the component on a network that may deliver any event
Next ==
  \/ Client
  \/ \E i \in 1 .. MaxStarts : \E n \in EventNames : Receive(i, n)

Spec == Init /\ [][Next]_vars

\* the component in front of the server of the specification
NextSrv ==
  \/ Client
  \/ \E j \in JobIds : \E t \in Statuses : ServerStep(j, t)
  \/ \E i \in 1 .. MaxStarts : Publish(i)

SpecSrv == Init /\ [][NextSrv]_vars

\* the publisher sends the current snapshot of a job that reports no
\* counters and no meta
PublishStatus(i) ==
  /\ Open(i)
  /\ \E name \in NameOf(jobs[sources[i].url]) :
       Dispatch(i, name,
         Json([id |-> sources[i].url, status |-> jobs[sources[i].url],
               total |-> 0, done |-> 0, meta |-> {}]))

\* the component in front of a server that accepts every launch, with the
\* number input and the Reset button of the form
NextUI ==
  \/ Start
  \/ \E c \in 1 .. MaxStarts : ServerAccept(c)
  \/ \E c \in 1 .. MaxStarts : PostResolved(c)
  \/ \E i \in 1 .. MaxStarts : TransportError(i)
  \/ Unmount
  \/ \E j \in JobIds : \E t \in Statuses : ServerStep(j, t)
  \/ \E i \in 1 .. MaxStarts : PublishStatus(i)
  \/ \E n \in {"limit"} : \E v \in InputValues(LimitDef) : Update(n, v)
  \/ Reset

SpecUI == Init /\ [][NextUI]_vars

\* the progress bar: launches that succeed and events with any counters
NextPct ==
  \/ Start
  \/ \E c \in 1 .. MaxStarts : ServerAccept(c)
  \/ \E c \in 1 .. MaxStarts : PostResolved(c)
  \/ \E i \in 1 .. MaxStarts : \E n \in EventNames : \E c \in Counts :
       ReceiveCounts(i, n, c)

SpecPct == Init /\ [][NextPct]_vars

\* a select field without a default
SiteDef ==
  [name |-> "site", type |-> "select", default |-> Undefined,
   options |-> <<"x", "y">>]

\* the definitions of the form's specification
DefSeqs == {<<>>, <<LimitDef>>, <<LimitDef, SiteDef>>}

\* its seeds: none, a key of a definition, a key of no definition, both,
\* and a key whose value is undefined
Seeds ==
  {EmptyMap, [limit |-> Num(0)], [extra |-> Num(0)],
   [limit |-> Num(0), extra |-> Num(0)], [limit |-> Undefined]}

\* the texts the slot of the kind can hold when the component mounts
Slots ==
  {NoItem, EmptyText, GarbageText, NullText, NumText(1), StrText(<<>>),
   StrText(<<"a", "b">>), ListText(<<>>), ListText(<<Str("p")>>)}
  \cup {ObjText([k \in D |-> Str("p")]) : D \in SUBSET {"limit", "old"}}

\* a component that has not been mounted yet, with any of the definitions,
\* seeds, slot texts and storage conditions
InitForm ==
  /\ InitRunner
  /\ mounted = FALSE
  /\ kind = "details"
  /\ paramDefs \in DefSeqs
  /\ params \in Seeds
  /\ storage \in {"ok", "full", "denied"}
  /\ form = EmptyMap
  /\ \E t \in Slots : \E u \in {NoItem, ObjText([limit |-> Str("q")])} :
       store = [k \in Kinds |-> IF k = "details" THEN t ELSE u]
  /\ origin = "none"
  /\ op = "none"

NextForm ==
  \/ Mount
  \/ \E i \in DOMAIN paramDefs : \E v \in InputValues(paramDefs[i]) :
       Update(paramDefs[i].name, v)
  \/ Reset
  \/ \E k \in Kinds : KindChange(k)
  \/ Unmount

SpecForm == InitForm /\ [][NextForm]_vars

\* a number field with a range
PagesDef ==
  [name |-> "pages", type |-> "number", default |-> Num(1), options |-> <<>>,
   min |-> 1, max |-> 1]

\* a component that has not been mounted yet, with a number field that has
\* a range, seeds and slot texts with a key of no definition
InitLaunch ==
  /\ InitRunner
  /\ mounted = FALSE
  /\ kind = "details"
  /\ paramDefs = <<PagesDef>>
  /\ params \in {EmptyMap, [extra |-> Num(0)], [pages |-> Undefined]}
  /\ storage \in {"ok", "full", "denied"}
  /\ form = EmptyMap
  /\ \E t \in {NoItem, ObjText([old |-> Str("p")]), StrText(<<"a", "b">>)} :
       store = [k \in Kinds |-> IF k = "details" THEN t ELSE NoItem]
  /\ origin = "none"
  /\ op = "none"

\* the form and the launch
NextLaunch ==
  \/ Mount
  \/ \E i \in DOMAIN paramDefs : \E v \in InputValues(paramDefs[i]) :
       Update(paramDefs[i].name, v)
  \/ Reset
  \/ Start
  \/ \E c \in 1 .. MaxStarts : ServerAccept(c)
  \/ \E c \in 1 .. MaxStarts : PostResolved(c)

SpecLaunch == InitLaunch /\ [][NextLaunch]_vars

\* the versions of the page: the number field with each default, and the
\* seeds the page passes
LimitVersions ==
  {<<[LimitDef EXCEPT !.default = d]>> :
     d \in {Undefined} \cup {Num(n) : n \in 0 .. MaxNum}}

SeedVersions ==
  {EmptyMap} \cup {[k \in {"limit"} |-> Num(n)] : n \in 0 .. MaxNum}
  \cup {[extra |-> Num(0)]}

\* a new version of the page is deployed while the component is not
\* mounted: other definitions and another seed for the same kind
Redeploy(defs, seed) ==
  /\ ~mounted
  /\ paramDefs' = defs
  /\ params' = seed
  /\ UNCHANGED <<job, running, esRef, sources, calls, mounted, jobs, last>>
  /\ UNCHANGED <<kind, form, store, storage, origin, op>>

\* a first visit with empty storage
InitVersions ==
  /\ InitRunner
  /\ mounted = FALSE
  /\ kind = "details"
  /\ paramDefs \in LimitVersions
  /\ params \in SeedVersions
  /\ storage = "ok"
  /\ form = EmptyMap
  /\ store = [k \in Kinds |-> NoItem]
  /\ origin = "none"
  /\ op = "none"

NextVersions ==
  \/ Mount
  \/ Unmount
  \/ \E defs \in LimitVersions : \E seed \in SeedVersions :
       Redeploy(defs, seed)

SpecVersions == InitVersions /\ [][NextVersions]_vars

\* all definitions: each type with and without a default, a select with
\* no, one and two options
DefNames == {"limit", "site"}

DefaultsFor(t) ==
  IF t = "boolean" THEN {Undefined, Bool(TRUE), Bool(FALSE)}
  ELSE IF t = "number" THEN {Undefined} \cup {Num(n) : n \in 0 .. MaxNum}
  ELSE IF t = "select" THEN {Undefined, Str("y")}
  ELSE {Undefined, Str(""), Str("t")}

OptionsFor(t) ==
  IF t = "select" THEN {<<>>, <<"x">>, <<"x", "y">>} ELSE {<<>>}

AllDefs ==
  UNION {{[name |-> n, type |-> t, default |-> d, options |-> o] :
            n \in DefNames, d \in DefaultsFor(t), o \in OptionsFor(t)} :
         t \in ParamTypes}

\* a component with any list of definitions, no seed and empty storage
InitDefs ==
  /\ InitRunner
  /\ mounted = FALSE
  /\ kind = "details"
  /\ paramDefs \in UNION {[1 .. n -> AllDefs] : n \in 0 .. MaxDefs}
  /\ params = EmptyMap
  /\ storage = "ok"
  /\ form = EmptyMap
  /\ store = [k \in Kinds |-> NoItem]
  /\ origin = "none"
  /\ op = "none"

NextDefs == Mount \/ Unmount

SpecDefaults == InitDefs /\ [][NextDefs]_vars

\* the server answers, start() continues after its await, jobs advance and
\* the publisher sends; the user and the network failures are not fair
Fairness ==
  /\ WF_vars(\E c \in 1 .. MaxStarts : ServerAccept(c) \/ ServerReject(c))
  /\ WF_vars(\E c \in 1 .. MaxStarts : PostResolved(c))
  /\ WF_vars(\E c \in 1 .. MaxStarts : PostRejected(c))
  /\ WF_vars(\E j \in JobIds : \E t \in Statuses : ServerStep(j, t))
  /\ WF_vars(\E i \in 1 .. MaxStarts : Publish(i))

SpecLive == SpecSrv /\ Fairness

\* the snapshots of job j with status st and their ok and err counters:
\* the registry counts every item done as ok or as err
CountedSnapshotsOf(j, st) ==
  {[id |-> j, status |-> st, total |-> t, done |-> o + e, ok |-> o,
    err |-> e, meta |-> {}] :
     t \in 0 .. MaxTotal, o \in 0 .. MaxTotal, e \in 0 .. MaxTotal}

\* the publisher sends the current snapshot with its counters
PublishCounted(i) ==
  /\ Open(i)
  /\ \E s \in CountedSnapshotsOf(sources[i].url, jobs[sources[i].url]) :
       \E name \in NameOf(s.status) : Dispatch(i, name, Json(s))

\* the component in front of a server whose snapshots carry the counters
NextCounted ==
  \/ Start
  \/ \E c \in 1 .. MaxStarts : ServerAccept(c)
  \/ \E c \in 1 .. MaxStarts : PostResolved(c)
  \/ \E j \in JobIds : \E t \in Statuses : ServerStep(j, t)
  \/ \E i \in 1 .. MaxStarts : PublishCounted(i)

SpecCounted == Init /\ [][NextCounted]_vars

\* the await of start() returns when the job has already ended: the
\* EventSource is opened on the stream of a job whose status is terminal
SubscribeLate(c) ==
  /\ c \in DOMAIN calls
  /\ calls[c].st = "resolved"
  /\ jobs[calls[c].job_id] \in Terminal
  /\ PostResolved(c)

\* launches whose job ends before the component subscribes, on a
\* connection that does not fail
NextLate ==
  \/ Start
  \/ \E c \in 1 .. MaxStarts : ServerAccept(c)
  \/ \E j \in JobIds : \E t \in Statuses : ServerStep(j, t)
  \/ \E c \in 1 .. MaxStarts : SubscribeLate(c)
  \/ \E i \in 1 .. MaxStarts : Publish(i)

FairnessLate ==
  /\ WF_vars(\E c \in 1 .. MaxStarts : ServerAccept(c))
  /\ WF_vars(\E j \in JobIds : \E t \in Statuses : ServerStep(j, t))
  /\ WF_vars(\E c \in 1 .. MaxStarts : SubscribeLate(c))
  /\ WF_vars(\E i \in 1 .. MaxStarts : Publish(i))

SpecLate == Init /\ [][NextLate]_vars /\ FairnessLate

\* ------------------------------------------------------------------------
\* Properties
\* ------------------------------------------------------------------------

\* a step that dispatches an event (an event dispatched twice in a row to
\* the same EventSource changes nothing the second time)
Dispatched == last' # last

IsOpen(i) == sources[i].readyState = "open"

IsClosed(i) == sources[i].readyState = "closed"

OpenSources == {i \in DOMAIN sources : IsOpen(i)}

InFlight == {c \in DOMAIN calls : calls[c].st \in {"request", "resolved", "rejected"}}

\* C1: while the component is mounted the view equals the snapshot of the
\* well-formed event applied last, whole and with nothing of an earlier
\* snapshot in it, and a step that applies no new event (a re-delivery of
\* the same event included) leaves the view as it is.
OverwriteIdempotence ==
  /\ [](mounted /\ last.name # "none" /\ last.data.t = "json" => job = last.data.v)
  /\ [][last' = last => job' = job]_vars

OverwriteWitness ==
  /\ mounted
  /\ last.name = "progress"
  /\ last.data.t = "json"
  /\ last.data.v.meta = {}
  /\ last.data.v.status = "running"
  /\ job = last.data.v
  /\ Len(sources) = 2

\* C2 (as claimed): a step that applies a snapshot of terminal status,
\* under any event name, closes the channel and sets running to false.
TerminalSnapshotCloses ==
  [][Dispatched /\ mounted /\ last'.data.t = "json"
       /\ last'.data.v.status \in Terminal
     => sources'[last'.src].readyState = "closed" /\ ~running']_vars

\* C2 (amended): a done or error event, whatever its payload, closes the
\* channel and sets running to false; a closed channel stays closed and
\* the view changes only when an event is dispatched at an open channel,
\* so no later event of that stream changes it; a started or progress
\* event leaves the channel open whatever the status of its snapshot.
TerminalEventCloses ==
  /\ [](last.name \in {"done", "error"} => IsClosed(last.src))
  /\ [][Dispatched /\ mounted /\ last'.name \in {"done", "error"} => ~running']_vars
  /\ [][\A i \in DOMAIN sources : IsClosed(i) =>
          sources'[i].readyState = "closed" /\ (Dispatched => last'.src # i)]_vars
  /\ [][job' # job => Dispatched /\ last'.src \in OpenSources]_vars
  /\ [][Dispatched /\ last'.name \in {"started", "progress"}
        => sources'[last'.src].readyState = "open"]_vars

TerminalEventWitness ==
  /\ mounted
  /\ last.name \in {"done", "error"}
  /\ last.data.t = "json"
  /\ last.data.v.status \in Terminal
  /\ job = last.data.v
  /\ IsClosed(last.src)
  /\ ~running

\* C3 (as claimed): the EventSource's own error notification leaves
\* running as it was and opens no new subscription.
DisconnectKeepsRunning ==
  [][Dispatched /\ last'.data = Undefined
     => running' = running /\ Len(sources') = Len(sources) /\ calls' = calls]_vars

\* C3 (amended): the EventSource's own error notification closes the
\* channel and, in a mounted component, turns running from true to false;
\* it changes neither the view nor the ref, sends no request and opens no
\* new subscription, and no job id is ever subscribed to twice.
DisconnectStops ==
  /\ [][Dispatched /\ last'.data = Undefined
        => /\ sources' = Close(last'.src)
           /\ calls' = calls
           /\ esRef' = esRef
           /\ job' = job
           /\ running
           /\ mounted => ~running']_vars
  /\ [](\A i, k \in DOMAIN sources : sources[i].url = sources[k].url => i = k)

DisconnectWitness ==
  /\ mounted
  /\ last.name = "error"
  /\ last.data = Undefined
  /\ IsClosed(last.src)
  /\ ~running
  /\ job # NullJob
  /\ job.status = "running"

\* C4 (as claimed): an event of any name whose payload cannot be parsed
\* leaves the channel open and running as it was.
MalformedKeepsOpen ==
  [][Dispatched /\ last'.data = Garbage
     => sources'[last'.src].readyState = "open" /\ running' = running]_vars

\* C4 (amended): a started or progress event whose payload cannot be
\* parsed leaves the channel open and running as it was; a done or error
\* event whose payload cannot be parsed closes the channel and sets
\* running to false.
MalformedByName ==
  [][Dispatched /\ last'.data = Garbage
     => IF last'.name \in {"started", "progress"}
        THEN sources' = sources /\ running' = running
        ELSE sources' = Close(last'.src) /\ (mounted => ~running')]_vars

MalformedWitness ==
  /\ mounted
  /\ last.name = "progress"
  /\ last.data = Garbage
  /\ IsOpen(last.src)
  /\ running

\* C5: at most one EventSource of the component is open at any moment.
AtMostOneOpen == Cardinality(OpenSources) <= 1

SecondChannelWitness ==
  /\ Len(sources) = 2
  /\ IsClosed(1)
  /\ IsOpen(2)
  /\ running

\* C6: a job that has reached a terminal status on the server is
\* eventually shown with that status by a component that stays mounted.
TerminalObserved ==
  \A j \in JobIds :
    <>(j \in DOMAIN jobs /\ jobs[j] \in Terminal)
      => <>(~mounted \/ (job # NullJob /\ job.id = j /\ job.status = jobs[j]))

\* C7: in a mounted component running is true only while a start request
\* is in flight or a channel is open, so a failed launch can be retried.
FailedLaunchRetryable ==
  mounted /\ running => InFlight # {} \/ OpenSources # {}

\* C8: every EventSource belongs to a start whose POST returned a job id,
\* and is keyed by that id; a start whose POST failed opens none and
\* leaves the view, the ref and the channels as they were.
ChannelOnlyAfterJobId ==
  /\ [](\A i \in DOMAIN sources :
          /\ sources[i].url \in DOMAIN jobs
          /\ \E c \in DOMAIN calls :
               calls[c].st = "opened" /\ calls[c].job_id = sources[i].url)
  /\ [](Len(sources) = Cardinality({c \in DOMAIN calls : calls[c].st = "opened"}))
  /\ [][\A c \in DOMAIN calls :
          calls[c].st = "rejected" /\ calls'[c].st # "rejected"
          => sources' = sources /\ job' = job /\ esRef' = esRef]_vars

FailedLaunchWitness ==
  /\ Len(calls) = 2
  /\ calls[1].st = "opened"
  /\ calls[2].st = "thrown"
  /\ Len(sources) = 1
  /\ sources[1].url = calls[1].job_id
  /\ job # NullJob

\* C9: while an EventSource is open running is true, and running turns
\* false only in a step that closes an open EventSource.
OpenImpliesRunning ==
  /\ [](OpenSources # {} => running)
  /\ [][running /\ ~running'
        => \E i \in OpenSources : sources'[i].readyState = "closed"]_vars

OpenRunningWitness ==
  /\ mounted
  /\ ~running
  /\ Len(sources) = 2
  /\ IsClosed(1)
  /\ IsClosed(2)

\* C10: the step that unmounts the component closes every open channel,
\* sends no request and leaves the server's jobs as they are.
UnmountIsLocal ==
  [][mounted /\ ~mounted'
     => /\ \A i \in OpenSources : sources'[i].readyState = "closed"
        /\ Len(sources') = Len(sources)
        /\ calls' = calls
        /\ jobs' = jobs]_vars

UnmountWitness ==
  /\ ~mounted
  /\ Len(sources) = 1
  /\ IsClosed(1)
  /\ last.src = 1
  /\ last.name \in {"started", "progress"}
  /\ jobs[sources[1].url] = "running"

\* C11: the EventSource's own error notification leaves the view as it
\* was, and the view of a mounted component whose last event was that
\* notification does not show status error, which is what the view of a
\* job that ended with status error shows.
LostConnectionNotFailure ==
  /\ [][Dispatched /\ last'.data = Undefined => job' = job]_vars
  /\ [](mounted /\ last.name = "error" /\ last.data = Undefined
        => job = NullJob \/ job.status # "error")

\* C12: a well-formed snapshot s received in a done event and received in
\* an error event lead to the same state: the view is s, the channel is
\* closed, running is false, and nothing else changes.
ErrorLikeDone ==
  [][Dispatched /\ last'.name \in {"done", "error"} /\ last'.data.t = "json"
     => /\ mounted => job' = last'.data.v /\ ~running'
        /\ ~mounted => job' = job /\ running' = running
        /\ sources' = Close(last'.src)
        /\ UNCHANGED <<esRef, calls, mounted, jobs>>
        /\ UNCHANGED formVars]_vars

ErrorLikeDoneWitness ==
  /\ mounted
  /\ last.name = "error"
  /\ last.data.t = "json"
  /\ last.data.v.status = "error"
  /\ job = last.data.v
  /\ IsClosed(last.src)
  /\ ~running

\* C13: the view is null until an event has been dispatched, and it
\* changes only in a step that dispatches an event with a parseable
\* payload, to exactly that payload: start, update, reset, unmount and the
\* transport error never set it.
ViewOnlyFromEvents ==
  /\ [](last.name = "none" => job = NullJob)
  /\ [][job' # job
        => Dispatched /\ last'.data.t = "json" /\ job' = last'.data.v]_vars

ViewOnlyFromEventsWitness ==
  /\ mounted
  /\ job # NullJob
  /\ job.status = "running"
  /\ last.name = "error"
  /\ last.data = Undefined
  /\ form # Defaults
  /\ Len(calls) = 2

\* C14: the value of the progress bar is in 0..100; with a view whose
\* total is positive it is 100 when done/total*100 is at least 99.5 and
\* otherwise the integer p with p - 1/2 <= done/total*100 < p + 1/2;
\* without a view or with total 0 it is the placeholder 5 while running
\* and 0 otherwise; total 100 with done 10 gives 10, with done 100 gives 100.
PercentComplete ==
  LET p == pct(job, running) IN
  /\ p \in 0 .. 100
  /\ job # NullJob /\ job.total > 0
       => IF 200 * job.done >= 199 * job.total THEN p = 100
          ELSE /\ (2 * p - 1) * job.total <= 200 * job.done
               /\ 200 * job.done < (2 * p + 1) * job.total
  /\ job = NullJob \/ job.total = 0 => p = IF running THEN 5 ELSE 0
  /\ job # NullJob /\ job.total = 100 /\ job.done = 10 => p = 10
  /\ job # NullJob /\ job.total = 100 /\ job.done = 100 => p = 100

PercentCompleteWitness ==
  /\ last.name = "done"
  /\ job # NullJob
  /\ job.total = 100
  /\ job.done = 100
  /\ ~running
  /\ pct(job, running) = 100

\* C15: when the component mounts with a readable slot that is absent or
\* holds a mapping, the form has the keys of the three layers and every key
\* has the value of the persisted slot when the slot has the key, else of
\* the seed when the seed has it, else of the default of its definition.
LayeredMerge ==
  [][~mounted /\ mounted' /\ storage # "denied"
     /\ (store[kind] = NoItem \/ "obj" \in DOMAIN store[kind])
     => LET persisted == IF store[kind] = NoItem THEN EmptyMap
                         ELSE store[kind].obj
            defaults == FromDefs(paramDefs)
        IN /\ DOMAIN form' =
                DOMAIN defaults \cup DOMAIN params \cup DOMAIN persisted
           /\ \A key \in DOMAIN form' :
                form'[key] = IF key \in DOMAIN persisted THEN persisted[key]
                             ELSE IF key \in DOMAIN params THEN params[key]
                             ELSE defaults[key]]_vars

LayeredMergeWitness ==
  /\ mounted
  /\ op = "mount"
  /\ storage = "full"
  /\ "obj" \in DOMAIN store[kind]
  /\ DOMAIN store[kind].obj = {"limit", "old"}
  /\ DOMAIN params = {"limit", "extra"}
  /\ Len(paramDefs) = 2
  /\ form["limit"] = Str("p")
  /\ form["extra"] = Num(0)
  /\ form["site"] = Str("x")

\* C16: when the component mounts and the slot of its kind cannot be read
\* or holds no serialized mapping (no text, unparseable text, a string, a
\* number, a list, null), the form is the defaults merged with the seed.
FailsSoft ==
  [][~mounted /\ mounted'
     /\ (storage = "denied" \/ "obj" \notin DOMAIN store[kind])
     => form' = Spread(FromDefs(paramDefs), params)]_vars

\* C17: the defaults of a list of definitions have exactly the names of
\* the definitions as keys, and the value of a name is that of its last
\* definition: the default when one is given, else false for a boolean, 0
\* for a number, the first option (or "" without options) for a select and
\* "" for a text; they are the same whenever the form is built again.
ResolveDefaults ==
  mounted
  => /\ DOMAIN form = {paramDefs[i].name : i \in DOMAIN paramDefs}
     /\ \A i \in DOMAIN paramDefs :
          LET d == paramDefs[i] IN
          (\A j \in DOMAIN paramDefs : j > i => paramDefs[j].name # d.name)
          => form[d.name] =
               IF d.default # Undefined THEN d.default
               ELSE IF d.type = "boolean" THEN Bool(FALSE)
               ELSE IF d.type = "number" THEN Num(0)
               ELSE IF d.type = "text" THEN Str("")
               ELSE IF d.options = <<>> THEN Str("")
               ELSE Str(Head(d.options))

ResolveDefaultsWitness ==
  /\ mounted
  /\ op = "remount"
  /\ Len(paramDefs) = 2
  /\ paramDefs[1].name = "site"
  /\ paramDefs[1].type = "select"
  /\ paramDefs[1].default = Undefined
  /\ form["site"] = Str("x")
  /\ paramDefs[2].name = "limit"
  /\ paramDefs[2].type = "boolean"
  /\ paramDefs[2].default = Bool(TRUE)
  /\ form["limit"] = Bool(TRUE)

\* C18: with working storage, when the values of a form have been saved
\* in the slot of the kind and the component is mounted again with the
\* same kind, definitions and seed, the new form has exactly those values.
RoundTrip ==
  [][~mounted /\ mounted' /\ op # "none" /\ storage = "ok"
     /\ store[kind] = JSONstringify(form)
     => form' = form]_vars

RoundTripWitness ==
  /\ mounted
  /\ op = "remount"
  /\ storage = "ok"
  /\ Len(paramDefs) = 2
  /\ DOMAIN params = {"limit", "extra"}
  /\ form["limit"] = Str("")
  /\ form["site"] = Str("y")
  /\ "old" \in DOMAIN form

\* C19 as stated: after reset the form holds the defaults of the
\* definitions only, and with working storage the slot of the kind holds
\* their text.
ResetToDefinitionsOnly ==
  op = "reset"
  => /\ form = FromDefs(paramDefs)
     /\ storage = "ok" => store[kind] = JSONstringify(form)

\* C19: after reset the form holds the defaults of the definitions
\* overlaid with the seed and no other key, and with working storage the
\* slot of the kind holds the text of those values.
ResetToSeededDefaults ==
  op = "reset"
  => /\ DOMAIN form = {paramDefs[i].name : i \in DOMAIN paramDefs}
                         \cup DOMAIN params
     /\ \A key \in DOMAIN form :
          form[key] = IF key \in DOMAIN params THEN params[key]
                      ELSE FromDefs(paramDefs)[key]
     /\ storage = "ok" => store[kind] = JSONstringify(form)

ResetToSeededDefaultsWitness ==
  /\ mounted
  /\ op = "reset"
  /\ storage = "ok"
  /\ Len(paramDefs) = 2
  /\ DOMAIN params = {"limit", "extra"}
  /\ form = [limit |-> Num(0), extra |-> Num(0), site |-> Str("x")]
  /\ form # FromDefs(paramDefs)
  /\ store[kind] = JSONstringify(form)

\* C20: every write of values to a slot goes to the slot of the kind the
\* values of the form were loaded for.
KindsNeverCross ==
  [][\A k \in Kinds :
       store'[k] # store[k] /\ "obj" \in DOMAIN store'[k]
       /\ DOMAIN store'[k].obj # {}
       => k = origin']_vars

\* C21: with working storage, once an update or a reset has been processed
\* the slot of the kind holds the text of the current form: every key of
\* the form whose value is defined, with the same value, and no other key.
SlotFollowsForm ==
  storage = "ok" /\ op \in {"update", "reset"}
  => /\ "obj" \in DOMAIN store[kind]
     /\ DOMAIN store[kind].obj = {key \in DOMAIN form : form[key] # Undefined}
     /\ \A key \in DOMAIN store[kind].obj : store[kind].obj[key] = form[key]

SlotFollowsFormWitness ==
  /\ mounted
  /\ storage = "ok"
  /\ op = "update"
  /\ "old" \in DOMAIN form
  /\ form["limit"] = Str("")
  /\ store[kind] = ObjText(form)

\* C22: when the writes of the storage throw, no step changes a slot, an
\* update still changes the one key of the form, a reset still gives the
\* defaults, and start still sets running and submits the kind and the
\* form as it is in memory.
LaunchSurvivesStorage ==
  [][storage # "ok"
     => /\ store' = store
        /\ op' = "update" /\ form' # form
             => \E name \in DOMAIN form' :
                  form' = Spread(form, [k \in {name} |-> form'[name]])
        /\ op' = "reset" /\ op # "reset" => form' = Defaults
        /\ Len(calls') > Len(calls)
             => /\ running'
                /\ calls' = Append(calls, [st |-> "request", job_id |-> 0,
                                           kind |-> kind, params |-> form])]_vars

LaunchSurvivesStorageWitness ==
  /\ mounted
  /\ running
  /\ storage = "full"
  /\ op = "update"
  /\ store[kind] = ObjText([old |-> Str("p")])
  /\ Len(calls) = 1
  /\ calls[1].st = "opened"
  /\ calls[1].params = [old |-> Str("p"), pages |-> Str("")]
  /\ Open(esRef)

\* C30: the params start hands to the POST are the form as it is, with
\* its kind, and start leaves the form alone; an update changes the one
\* key it names and no other key of the form.
SubmitsVerbatim ==
  [][/\ Len(calls') > Len(calls)
        => /\ calls'[Len(calls')].params = form
           /\ calls'[Len(calls')].kind = kind
           /\ form' = form
     /\ op' = "update" /\ form' # form
        => \E name \in DOMAIN form' :
             /\ DOMAIN form' = DOMAIN form \cup {name}
             /\ \A key \in DOMAIN form \ {name} : form'[key] = form[key]]_vars

SubmitsVerbatimWitness ==
  /\ Len(calls) = 1
  /\ calls[1].st = "opened"
  /\ paramDefs[1].min = 1
  /\ calls[1].params = [old |-> Str("p"), extra |-> Num(0), pages |-> Num(0)]
  /\ form["pages"] = Str("")

\* C23: an event of any name whose payload is not JSON text, or that has
\* no payload, leaves the view as it was.
MalformedDropped ==
  [][Dispatched /\ last'.data.t # "json" => job' = job]_vars

MalformedDroppedWitness ==
  /\ mounted
  /\ job # NullJob
  /\ last.name = "started"
  /\ last.data = Garbage
  /\ Open(last.src)

\* C24: a job of the registry changes its status only along queued ->
\* running -> {done, error, cancelled} or queued -> cancelled; the view of
\* a job shows the status the job has or one it has had before; and once
\* the view shows a terminal status of a job, it shows no other status of
\* that job.
StatusNeverLeavesTerminal ==
  /\ [][\A j \in DOMAIN jobs :
         jobs'[j] # jobs[j] => Transition(jobs[j], jobs'[j])]_vars
  /\ [](job # NullJob
         => \/ job.status = jobs[job.id]
            \/ Transition(job.status, jobs[job.id])
            \/ job.status = "queued" /\ jobs[job.id] \in Terminal)
  /\ [][job # NullJob /\ job' # NullJob /\ job'.id = job.id
        /\ job.status \in Terminal
        => job'.status = job.status]_vars

StatusNeverLeavesTerminalWitness ==
  /\ mounted
  /\ Len(jobs) = 2
  /\ Len(sources) = 2
  /\ job # NullJob
  /\ job.id = 1
  /\ job.status = "cancelled"
  /\ jobs[1] = "cancelled"
  /\ jobs[2] = "running"
  /\ IsClosed(1)
  /\ IsOpen(2)

\* C25: on a stream opened for a job that has already ended, the event
\* that arrives is the done or error event with the final snapshot; it
\* sets the view to that snapshot, clears running and closes the channel
\* without opening another; no event follows it on that stream; and on a
\* connection that does not fail it does arrive.
LateSubscriberGetsFinal ==
  /\ [][Dispatched
        => /\ last'.name \in {"done", "error"}
           /\ last'.data.t = "json"
           /\ last'.data.v.id = sources[last'.src].url
           /\ last'.data.v.status = jobs[sources[last'.src].url]
           /\ job' = last'.data.v
           /\ ~running'
           /\ sources' = Close(last'.src)
           /\ esRef' = esRef
           /\ last.src # last'.src]_vars
  /\ \A i \in 1 .. MaxStarts :
       (i \in DOMAIN sources /\ IsOpen(i))
         ~> (/\ i \in DOMAIN sources
             /\ IsClosed(i)
             /\ last.src = i
             /\ job = last.data.v
             /\ job.status = jobs[sources[i].url]
             /\ ~running)

LateSubscriberGetsFinalWitness ==
  /\ Len(sources) = 2
  /\ IsClosed(1)
  /\ IsClosed(2)
  /\ last.src = 2
  /\ last.name = "done"
  /\ job = last.data.v
  /\ job.id = 2
  /\ job.status = "cancelled"
  /\ ~running

\* C26: every snapshot that has been received and every view that is not
\* null has a status other than queued and done = ok + err.
DoneIsOkPlusErr ==
  /\ last.name # "none"
       => /\ last.data.v.status # "queued"
          /\ last.data.v.done = last.data.v.ok + last.data.v.err
  /\ job # NullJob
       => job.status # "queued" /\ job.done = job.ok + job.err

DoneIsOkPlusErrWitness ==
  /\ job # NullJob
  /\ last.name = "progress"
  /\ last.src = 2
  /\ job.id = 2
  /\ job.ok = 1
  /\ job.err = 0
  /\ job.done = 1

\* C27: once the component has unmounted, none of its event channels is
\* open.
NoChannelAfterUnmount ==
  ~mounted => OpenSources = {}

\* C28: while the component is running and no event of the job of its
\* last start has been applied yet, the view is null and the progress bar
\* shows the placeholder.
ViewIsOfObservedJob ==
  /\ mounted
  /\ running
  /\ calls # <<>>
  /\ \/ calls[Len(calls)].st \in {"request", "resolved"}
     \/ calls[Len(calls)].st = "opened" /\ last.src # Len(sources)
  => job = NullJob /\ pct(job, running) = Placeholder

\* C29: with working storage a mount writes the whole initial form to the
\* slot of the kind although nothing was changed, and at a mount every key
\* of the slot gives the form its value, whatever the definitions and the
\* seed are by then.
MountPersistsDefaults ==
  [][~mounted /\ mounted'
     => /\ store'[kind] = JSONstringify(form')
        /\ DOMAIN store'[kind].obj = DOMAIN form'
        /\ "obj" \in DOMAIN store[kind]
             => \A key \in DOMAIN store[kind].obj :
                  form'[key] = store[kind].obj[key]]_vars

MountPersistsDefaultsWitness ==
  /\ mounted
  /\ op = "remount"
  /\ paramDefs[1].default = Num(0)
  /\ params = [extra |-> Num(0)]
  /\ form = [limit |-> Num(1), extra |-> Num(0)]
  /\ store[kind] = ObjText(form)

====
